---- MODULE Spec2Model ----
(***************************************************************************)
(* StackStore (src/src/lib.rs): a DashMap<String, Mutex<Vec<String>>>      *)
(* driven by concurrent threads through set, get, iter and del_stack.      *)
(*                                                                         *)
(* Strings are sequences of byte values.  The DashMap is a fixed array of  *)
(* shards, each behind a reader-writer lock: get and iter hold a shard's   *)
(* read lock for as long as the reference they return lives, insert and    *)
(* remove hold its write lock for the duration of the call.  A call        *)
(* returns in the step in which it last touches the store.                 *)
(***************************************************************************)
EXTENDS Integers, Sequences, FiniteSets, TLC

\* ---------------------------------------------------------------- bounds
NumThreads == 2
MaxOps == 2
NumShards == 2

Threads == 1 .. NumThreads
Shards == 0 .. (NumShards - 1)

\* "a", "b" and "ba"
Keys == { <<97>>, <<98>>, <<98, 97>> }
\* "", "a" and "ab"
Filters == { <<>>, <<97>>, <<97, 98>> }

\* the shard a key hashes to: "a" and "b" share a shard
ShardOf(k) == Len(k) % NumShards

\* the n-th value pushed by thread t; distinct pushes push distinct strings,
\* among them the empty string, a quote and a backslash
ValueOf(t, n) ==
    [i \in 1 .. (t + n - 2) |-> IF i = 1 THEN 33 + t ELSE 91 + n]

\* ------------------------------------------------------------ serde_json
RECURSIVE Concat(_)
Concat(ss) == IF ss = <<>> THEN <<>> ELSE Head(ss) \o Concat(Tail(ss))

\* one byte of a string inside a JSON string literal
EscapeByte(c) ==
    CASE c = 34 -> <<92, 34>>
      [] c = 92 -> <<92, 92>>
      [] c = 8  -> <<92, 98>>
      [] c = 9  -> <<92, 116>>
      [] c = 10 -> <<92, 110>>
      [] c = 12 -> <<92, 102>>
      [] c = 13 -> <<92, 114>>
      [] OTHER  -> <<c>>

JsonString(s) ==
    <<34>> \o Concat([i \in 1 .. Len(s) |-> EscapeByte(s[i])]) \o <<34>>

\* a JSON array of items that are already JSON text
JsonArray(items) ==
    <<91>> \o
    Concat([i \in 1 .. Len(items) |->
              IF i = 1 THEN items[i] ELSE <<44>> \o items[i]]) \o
    <<93>>

\* serde_json::to_string(&Vec<String>)
StackToJson(stack) ==
    JsonArray([i \in 1 .. Len(stack) |-> JsonString(stack[i])])

\* serde_json::to_string(&Vec<(String, Vec<String>)>)
EntriesToJson(r) ==
    JsonArray([i \in 1 .. Len(r) |->
                 JsonArray(<<JsonString(r[i][1]), StackToJson(r[i][2])>>)])

\* ------------------------------------------------------------- results
NoRet == [tag |-> "NoRet"]
None == [tag |-> "None"]
Some(text) == [tag |-> "Some", text |-> text]
Unit == [tag |-> "Unit"]
Bool(b) == [tag |-> "Bool", b |-> b]

\* an iterator that has not entered a shard yet: the next shard to enter,
\* the keys of the current shard already yielded, the entry being mapped,
\* and the pairs collected so far
NoIter == [shard_i |-> 0, visited |-> {}, cur |-> <<>>, r |-> <<>>]

NoArg == [op |-> "none", key |-> <<>>, value |-> <<>>, filter |-> <<>>]

\* ---------------------------------------------------------------- state
VARIABLES
    inner,      \* the map: present keys -> stack (Vec<String>)
    rlock,      \* shard -> threads holding its read lock
    wlock,      \* shard -> thread holding its write lock, 0 if none
    mutex,      \* key -> thread holding the entry's Mutex, 0 if none
    poison,     \* key -> the entry's Mutex is poisoned
    pc,         \* thread -> position in the running operation
    arg,        \* thread -> the running (or last finished) call
    ret,        \* thread -> result of the last finished call
    nops,       \* thread -> calls started so far
    it,         \* thread -> the state of its map iterator and collected Vec
    gk,         \* history, per key: what calls have done to the key so far
    gt          \* history, per thread: what happened during its running call

vars == <<inner, rlock, wlock, mutex, poison, pc, arg, ret, nops, it, gk, gt>>

Present(k) == k \in DOMAIN inner

\* ------------------------------------------------------------- history
\* These variables record the past; no action of the program reads them.
\*   log      the pushes <<thread, value>> on the key that returned since the
\*            last del_stack of the key took effect, in order of return
\*   last     the last call that took effect on the key
\*   gone     the values held by the key's stacks when they were removed
\*   everDel  a del_stack of the key has been called
\*   created  an insert has created a stack for the key
\*   ndrop, ntrue   del_stack calls on the key, and those that returned
\*            true, since the last insert for the key
\*   kept     the contents of the key's stack when its Mutex was poisoned
\*   into     the values of the pushes on the key that returned since the
\*            last insert for the key, the inserted value first
NoKeyHist ==
    [log |-> <<>>, last |-> <<"none">>, gone |-> {}, everDel |-> FALSE,
     created |-> FALSE, ndrop |-> 0, ntrue |-> 0, kept |-> <<>>,
     into |-> <<>>]

\*   alone    no other thread was inside a call at any time during the call
\*   during   key -> the contents the key's stack had at some time during
\*            the call
\*   before   key -> the log of the key when the call started, emptied by a
\*            del_stack of the key during the call
NoCallHist ==
    [alone |-> FALSE, during |-> [k \in Keys |-> {}],
     before |-> [k \in Keys |-> <<>>]]

Elems(stack) == { stack[i] : i \in 1 .. Len(stack) }

Contents(m, k) == IF k \in DOMAIN m THEN {m[k]} ELSE {}

\* thread t starts a call
HistStart(t) ==
    [u \in Threads |->
        IF u = t
        THEN [alone |-> \A x \in Threads \ {t} : pc[x] = "idle",
              during |-> [k \in Keys |-> Contents(inner, k)],
              before |-> [k \in Keys |-> gk[k].log]]
        ELSE IF pc[u] = "idle" THEN gt[u]
        ELSE [gt[u] EXCEPT !.alone = FALSE]]

\* the map becomes m; dropped is the set of keys a del_stack just acted on
HistChange(m, dropped) ==
    [u \in Threads |->
        IF pc[u] = "idle" THEN gt[u]
        ELSE [gt[u] EXCEPT
                !.during = [k \in Keys |-> @[k] \cup Contents(m, k)],
                !.before = [k \in Keys |->
                              IF k \in dropped THEN <<>> ELSE @[k]]]]

\* a push of v on k by t returns
HistPush(t, k, v, creates) ==
    [gk EXCEPT ![k] =
        [@ EXCEPT !.log = Append(@, <<t, v>>),
                  !.last = <<"push", v>>,
                  !.created = @ \/ creates,
                  !.ndrop = IF creates THEN 0 ELSE @,
                  !.ntrue = IF creates THEN 0 ELSE @,
                  !.kept = IF creates THEN <<>> ELSE @,
                  !.into = IF creates THEN <<v>> ELSE Append(@, v)]]

\* a del_stack of k takes effect and returns result
HistDrop(k, result) ==
    [gk EXCEPT ![k] =
        [@ EXCEPT !.log = <<>>,
                  !.last = <<"drop">>,
                  !.gone = IF Present(k) THEN @ \cup Elems(inner[k]) ELSE @,
                  !.ndrop = @ + 1,
                  !.ntrue = IF result THEN @ + 1 ELSE @,
                  !.kept = <<>>,
                  !.into = <<>>]]

\* StackStore::new
Init ==
    /\ inner = <<>>
    /\ rlock = [s \in Shards |-> {}]
    /\ wlock = [s \in Shards |-> 0]
    /\ mutex = [k \in Keys |-> 0]
    /\ poison = [k \in Keys |-> FALSE]
    /\ pc = [t \in Threads |-> "idle"]
    /\ arg = [t \in Threads |-> NoArg]
    /\ ret = [t \in Threads |-> NoRet]
    /\ nops = [t \in Threads |-> 0]
    /\ it = [t \in Threads |-> NoIter]
    /\ gk = [k \in Keys |-> NoKeyHist]
    /\ gt = [t \in Threads |-> NoCallHist]

\* ---------------------------------------------------- DashMap primitives
\* the shard's RwLock: a reader waits for the writer
CanRead(s) == wlock[s] = 0

\* a write lock that does not wait for the readers
CanWriteUnfair(t, s) == wlock[s] = 0

\* the shard's RwLock: a writer waits for the writer and for every reader
CanWrite(t, s) == wlock[s] = 0 /\ rlock[s] = {}

\* a guard that is never released
RefLeaked(readers, t) == readers

\* drop of a Ref or of the iterator's guard: the read lock is released
RefDropped(readers, t) == readers \ {t}

\* a lookup that hands out the value without keeping the shard locked
RefUnlocked(readers, t) == readers

\* the Ref that DashMap::get returns, and the guard the iterator stores,
\* keep the shard's read lock
RefHeld(readers, t) == readers \cup {t}

\* a MutexGuard that is never released
GuardLeaked(mx, k) == mx

\* drop of the MutexGuard
GuardDropped(mx, k) == [mx EXCEPT ![k] = 0]

\* an insert that only replaces the value of a key already in the map
MapInsertIfPresent(m, k, stack) ==
    [x \in DOMAIN m |-> IF x = k THEN stack ELSE m[x]]

\* an insert of a stack that does not hold the value yet
MapInsertEmpty(m, k, stack) ==
    [x \in (DOMAIN m) \cup {k} |-> IF x = k THEN <<>> ELSE m[x]]

\* DashMap::insert under the shard's write lock: replaces any old value
MapInsert(m, k, stack) ==
    [x \in (DOMAIN m) \cup {k} |-> IF x = k THEN stack ELSE m[x]]

\* a remove that empties the key's stack and leaves the entry in the map
MapClear(m, k) == [x \in DOMAIN m |-> IF x = k THEN <<>> ELSE m[x]]

\* a remove that takes every entry of the key's shard with it
MapRemoveShard(m, k) ==
    [x \in { y \in DOMAIN m : ShardOf(y) # ShardOf(k) } |-> m[x]]

\* a remove through the entry of the key, which leaves an empty stack
\* behind for a key that was not in the map
MapRemoveEntry(m, k) ==
    IF k \in DOMAIN m THEN [x \in (DOMAIN m) \ {k} |-> m[x]]
    ELSE [x \in (DOMAIN m) \cup {k} |-> IF x = k THEN <<>> ELSE m[x]]

\* DashMap::remove under the shard's write lock
MapRemove(m, k) == [x \in (DOMAIN m) \ {k} |-> m[x]]

\* is_none in the place of is_some
IsNone(m, k) == k \notin DOMAIN m

\* Option::is_some of what DashMap::remove returns: the removed value
IsSome(m, k) == k \in DOMAIN m

\* a push at the front of the Vec
VecPushFront(stack, v) == <<v>> \o stack

\* Vec::push
VecPush(stack, v) == Append(stack, v)

\* set, lines 46-56: match stack.lock(), Ok(guard) or Err(poisoned) with
\* poisoned.into_inner(); either guard pushes
Pushed(p, stack, v) == IF p THEN VecPush(stack, v) ELSE VecPush(stack, v)

\* ------------------------------------------------------------------ set
StartSet(t, k) ==
    /\ pc[t] = "idle" /\ nops[t] < MaxOps
    /\ pc' = [pc EXCEPT ![t] = "set_get"]
    /\ arg' = [arg EXCEPT ![t] = [op |-> "set", key |-> k,
                                  value |-> ValueOf(t, nops[t] + 1),
                                  filter |-> <<>>]]
    /\ ret' = [ret EXCEPT ![t] = NoRet]
    /\ nops' = [nops EXCEPT ![t] = @ + 1]
    /\ UNCHANGED <<inner, rlock, wlock, mutex, it, gk, poison>>
    /\ gt' = HistStart(t)

\* if let Some(stack) = self.inner.get(key)
SetGet(t) ==
    /\ pc[t] = "set_get"
    /\ CanRead(ShardOf(arg[t].key))
    /\ IF Present(arg[t].key)
       THEN /\ rlock' = [rlock EXCEPT ![ShardOf(arg[t].key)] = RefHeld(@, t)]
            /\ pc' = [pc EXCEPT ![t] = "set_lock"]
       ELSE /\ pc' = [pc EXCEPT ![t] = "set_insert"]
            /\ UNCHANGED rlock
    /\ UNCHANGED <<inner, wlock, mutex, arg, ret, nops, it, gk, gt, poison>>

\* stack.lock()
SetLock(t) ==
    /\ pc[t] = "set_lock"
    /\ mutex[arg[t].key] = 0
    /\ mutex' = [mutex EXCEPT ![arg[t].key] = t]
    /\ pc' = [pc EXCEPT ![t] = "set_push"]
    /\ UNCHANGED <<inner, rlock, wlock, arg, ret, nops, it, gk, gt, poison>>

\* guard.push(value); return  (drops the MutexGuard, then the Ref): the
\* call does nothing more to the store, so it returns in this step
SetPush(t) ==
    /\ pc[t] = "set_push"
    /\ inner' = [inner EXCEPT ![arg[t].key] =
                   Pushed(poison[arg[t].key], @, arg[t].value)]
    /\ mutex' = GuardDropped(mutex, arg[t].key)
    /\ rlock' = [rlock EXCEPT ![ShardOf(arg[t].key)] = RefDropped(@, t)]
    /\ pc' = [pc EXCEPT ![t] = "idle"]
    /\ ret' = [ret EXCEPT ![t] = Unit]
    /\ UNCHANGED <<wlock, arg, nops, it, poison>>
    /\ gk' = HistPush(t, arg[t].key, arg[t].value, FALSE)
    /\ gt' = HistChange(inner', {})

\* self.inner.insert(..): take the shard's write lock
SetInsertLock(t) ==
    /\ pc[t] = "set_insert"
    /\ CanWrite(t, ShardOf(arg[t].key))
    /\ wlock' = [wlock EXCEPT ![ShardOf(arg[t].key)] = t]
    /\ pc' = [pc EXCEPT ![t] = "set_insert_w"]
    /\ UNCHANGED <<inner, rlock, mutex, arg, ret, nops, it, gk, gt, poison>>

\* self.inner.insert(key.to_string(), Mutex::new(vec![value])), which
\* releases the write lock; set returns
SetInsert(t) ==
    /\ pc[t] = "set_insert_w"
    /\ inner' = MapInsert(inner, arg[t].key, <<arg[t].value>>)
    /\ wlock' = [wlock EXCEPT ![ShardOf(arg[t].key)] = 0]
    /\ pc' = [pc EXCEPT ![t] = "idle"]
    /\ ret' = [ret EXCEPT ![t] = Unit]
    /\ UNCHANGED <<rlock, mutex, arg, nops, it>>
    /\ gk' = HistPush(t, arg[t].key, arg[t].value, TRUE)
    /\ gt' = HistChange(inner', {})
    /\ poison' = [poison EXCEPT ![arg[t].key] = FALSE]

\* an ok() that takes a text without a character of content for a failure
ResultOkFilled(text) == IF Len(text) <= 4 THEN None ELSE Some(text)

\* Result::ok of serde_json::to_string, which is Ok for strings
ResultOk(text) == Some(text)

\* ------------------------------------------------------------------ get
\* a get that gives up on a poisoned Mutex
GetResultStrict(p, stack) == IF p THEN None ELSE Some(StackToJson(stack))

\* get, lines 77-84: match stack.lock(), Ok(guard) or Err(poisoned) with
\* poisoned.into_inner(); either guard is serialised, .ok() of an Ok
GetResult(p, stack) ==
    IF p THEN ResultOk(StackToJson(stack)) ELSE ResultOk(StackToJson(stack))

StartGet(t, k) ==
    /\ pc[t] = "idle" /\ nops[t] < MaxOps
    /\ pc' = [pc EXCEPT ![t] = "get_get"]
    /\ arg' = [arg EXCEPT ![t] = [op |-> "get", key |-> k,
                                  value |-> <<>>, filter |-> <<>>]]
    /\ ret' = [ret EXCEPT ![t] = NoRet]
    /\ nops' = [nops EXCEPT ![t] = @ + 1]
    /\ UNCHANGED <<inner, rlock, wlock, mutex, it, gk, poison>>
    /\ gt' = HistStart(t)

\* self.inner.get(key).and_then(..)
GetGet(t) ==
    /\ pc[t] = "get_get"
    /\ CanRead(ShardOf(arg[t].key))
    /\ IF Present(arg[t].key)
       THEN /\ rlock' = [rlock EXCEPT ![ShardOf(arg[t].key)] = RefHeld(@, t)]
            /\ pc' = [pc EXCEPT ![t] = "get_lock"]
            /\ UNCHANGED ret
       ELSE /\ pc' = [pc EXCEPT ![t] = "idle"]
            /\ ret' = [ret EXCEPT ![t] = None]
            /\ UNCHANGED rlock
    /\ UNCHANGED <<inner, wlock, mutex, arg, nops, it, gk, gt, poison>>

\* stack.lock()
GetLock(t) ==
    /\ pc[t] = "get_lock"
    /\ mutex[arg[t].key] = 0
    /\ mutex' = [mutex EXCEPT ![arg[t].key] = t]
    /\ pc' = [pc EXCEPT ![t] = "get_ser"]
    /\ UNCHANGED <<inner, rlock, wlock, arg, ret, nops, it, gk, gt, poison>>

\* serde_json::to_string(&*guard).ok()
GetSer(t) ==
    /\ pc[t] = "get_ser"
    /\ ret' = [ret EXCEPT ![t] =
                 GetResult(poison[arg[t].key], inner[arg[t].key])]
    /\ mutex' = GuardDropped(mutex, arg[t].key)
    /\ rlock' = [rlock EXCEPT ![ShardOf(arg[t].key)] = RefDropped(@, t)]
    /\ pc' = [pc EXCEPT ![t] = "idle"]
    /\ UNCHANGED <<inner, wlock, arg, nops, it, gk, gt, poison>>

\* ----------------------------------------------------------------- iter
\* str::starts_with in the place of str::contains
StartsWith(k, f) == Len(f) <= Len(k) /\ SubSeq(k, 1, Len(f)) = f

\* str::contains
Contains(k, f) ==
    \E i \in 0 .. (Len(k) - Len(f)) : SubSeq(k, i + 1, i + Len(f)) = f

\* the keys stored in shard s
ShardKeys(s) == { k \in DOMAIN inner : ShardOf(k) = s }

\* the entries of the iterator's current shard not yet yielded
Unvisited(t) ==
    IF it[t].shard_i = 0 THEN {}
    ELSE ShardKeys(it[t].shard_i - 1) \ it[t].visited

\* a copy that misses the last element
VecCloneShort(stack) == SubSeq(stack, 1, Len(stack) - 1)

\* Vec::clone
VecClone(stack) == stack

\* iter, lines 106-113: match entry.value().lock(), Ok(stack) or Err(poisoned)
\* with poisoned.into_inner(); either guard is cloned
Cloned(p, stack) == IF p THEN VecClone(stack) ELSE VecClone(stack)

StartIter(t, f) ==
    /\ pc[t] = "idle" /\ nops[t] < MaxOps
    /\ pc' = [pc EXCEPT ![t] = "iter_next"]
    /\ arg' = [arg EXCEPT ![t] = [op |-> "iter", key |-> <<>>,
                                  value |-> <<>>, filter |-> f]]
    /\ ret' = [ret EXCEPT ![t] = NoRet]
    /\ nops' = [nops EXCEPT ![t] = @ + 1]
    /\ it' = [it EXCEPT ![t] = NoIter]
    /\ UNCHANGED <<inner, rlock, wlock, mutex, gk, poison>>
    /\ gt' = HistStart(t)

\* Iter::next moves to the next shard: it takes that shard's read lock
\* while the guard of the shard it leaves is still stored in the iterator
IterShard(t) ==
    /\ pc[t] = "iter_next"
    /\ Unvisited(t) = {}
    /\ it[t].shard_i < NumShards
    /\ CanRead(it[t].shard_i)
    /\ rlock' = [rlock EXCEPT ![it[t].shard_i] = RefHeld(@, t)]
    /\ pc' = [pc EXCEPT ![t] = "iter_swap"]
    /\ UNCHANGED <<inner, wlock, mutex, arg, ret, nops, it, gk, gt, poison>>

\* storing the new guard in the iterator drops the old one
IterSwap(t) ==
    /\ pc[t] = "iter_swap"
    /\ rlock' = [s \in Shards |->
                   IF s < it[t].shard_i THEN RefDropped(rlock[s], t)
                   ELSE rlock[s]]
    /\ it' = [it EXCEPT ![t].shard_i = @ + 1, ![t].visited = {}]
    /\ pc' = [pc EXCEPT ![t] = "iter_next"]
    /\ UNCHANGED <<inner, wlock, mutex, arg, ret, nops, gk, gt, poison>>

\* Iter::next yields entry k; .filter(|entry| entry.key().contains(key_filter))
IterEntry(t, k) ==
    /\ pc[t] = "iter_next"
    /\ k \in Unvisited(t)
    /\ it' = [it EXCEPT ![t].visited = @ \cup {k}, ![t].cur = k]
    /\ pc' = [pc EXCEPT ![t] =
                 IF Contains(k, arg[t].filter) THEN "iter_lock" ELSE "iter_next"]
    /\ UNCHANGED <<inner, rlock, wlock, mutex, arg, ret, nops, gk, gt, poison>>

\* entry.value().lock()
IterLock(t) ==
    /\ pc[t] = "iter_lock"
    /\ mutex[it[t].cur] = 0
    /\ mutex' = [mutex EXCEPT ![it[t].cur] = t]
    /\ pc' = [pc EXCEPT ![t] = "iter_clone"]
    /\ UNCHANGED <<inner, rlock, wlock, arg, ret, nops, it, gk, gt, poison>>

\* (entry.key().clone(), stack.clone())
IterClone(t) ==
    /\ pc[t] = "iter_clone"
    /\ it' = [it EXCEPT ![t].r =
                 Append(@, <<it[t].cur,
                             Cloned(poison[it[t].cur], inner[it[t].cur])>>)]
    /\ mutex' = GuardDropped(mutex, it[t].cur)
    /\ pc' = [pc EXCEPT ![t] = "iter_next"]
    /\ UNCHANGED <<inner, rlock, wlock, arg, ret, nops, gk, gt, poison>>

\* an iter that returns None when nothing was collected
IterResultNonEmpty(r) == IF r = <<>> THEN None ELSE ResultOk(EntriesToJson(r))

\* serde_json::to_string(&r).ok()
IterResult(r) == ResultOk(EntriesToJson(r))

\* Iter::next returns None, collect() ends and the iterator is dropped;
\* serde_json::to_string(&r).ok()
IterFinish(t) ==
    /\ pc[t] = "iter_next"
    /\ Unvisited(t) = {}
    /\ it[t].shard_i = NumShards
    /\ rlock' = [s \in Shards |-> RefDropped(rlock[s], t)]
    /\ ret' = [ret EXCEPT ![t] = IterResult(it[t].r)]
    /\ it' = [it EXCEPT ![t] = NoIter]
    /\ pc' = [pc EXCEPT ![t] = "idle"]
    /\ UNCHANGED <<inner, wlock, mutex, arg, nops, gk, gt, poison>>

\* ------------------------------------------------------------ del_stack
StartDel(t, k) ==
    /\ pc[t] = "idle" /\ nops[t] < MaxOps
    /\ pc' = [pc EXCEPT ![t] = "del"]
    /\ arg' = [arg EXCEPT ![t] = [op |-> "del", key |-> k,
                                  value |-> <<>>, filter |-> <<>>]]
    /\ ret' = [ret EXCEPT ![t] = NoRet]
    /\ nops' = [nops EXCEPT ![t] = @ + 1]
    /\ UNCHANGED <<inner, rlock, wlock, mutex, it, poison>>
    /\ gt' = HistStart(t)
    /\ gk' = [gk EXCEPT ![k].everDel = TRUE]

\* self.inner.remove(key): take the shard's write lock
DelLock(t) ==
    /\ pc[t] = "del"
    /\ CanWrite(t, ShardOf(arg[t].key))
    /\ wlock' = [wlock EXCEPT ![ShardOf(arg[t].key)] = t]
    /\ pc' = [pc EXCEPT ![t] = "del_w"]
    /\ UNCHANGED <<inner, rlock, mutex, arg, ret, nops, it, gk, gt, poison>>

\* self.inner.remove(key).is_some()
DelRemove(t) ==
    /\ pc[t] = "del_w"
    /\ inner' = MapRemove(inner, arg[t].key)
    /\ ret' = [ret EXCEPT ![t] = Bool(IsSome(inner, arg[t].key))]
    /\ wlock' = [wlock EXCEPT ![ShardOf(arg[t].key)] = 0]
    /\ pc' = [pc EXCEPT ![t] = "idle"]
    /\ UNCHANGED <<rlock, mutex, arg, nops, it>>
    /\ gk' = HistDrop(arg[t].key, IsSome(inner, arg[t].key))
    /\ gt' = HistChange(inner', {arg[t].key})
    /\ poison' = [poison EXCEPT ![arg[t].key] = FALSE]

Next ==
    \E t \in Threads :
        \/ \E k \in Keys : StartSet(t, k)
        \/ SetGet(t)
        \/ SetLock(t)
        \/ SetPush(t)
        \/ SetInsertLock(t)
        \/ SetInsert(t)
        \/ \E k \in Keys : StartGet(t, k)
        \/ GetGet(t)
        \/ GetLock(t)
        \/ GetSer(t)
        \/ \E f \in Filters : StartIter(t, f)
        \/ IterShard(t)
        \/ IterSwap(t)
        \/ \E k \in Keys : IterEntry(t, k)
        \/ IterLock(t)
        \/ IterClone(t)
        \/ IterFinish(t)
        \/ \E k \in Keys : StartDel(t, k)
        \/ DelLock(t)
        \/ DelRemove(t)

Spec == Init /\ [][Next]_vars

\* --------------------------------------------- reading a snapshot back
Unescape(c) ==
    CASE c = 98  -> 8
      [] c = 116 -> 9
      [] c = 110 -> 10
      [] c = 102 -> 12
      [] c = 114 -> 13
      [] OTHER   -> c

\* the bytes of a string literal from position i, just after the opening
\* quote: <<string, position after the closing quote>>
RECURSIVE ParseChars(_, _, _)
ParseChars(txt, i, acc) ==
    IF txt[i] = 34 THEN <<acc, i + 1>>
    ELSE IF txt[i] = 92
         THEN ParseChars(txt, i + 2, Append(acc, Unescape(txt[i + 1])))
         ELSE ParseChars(txt, i + 1, Append(acc, txt[i]))

\* the elements of an array of strings from position i, just after "["
RECURSIVE ParseStrings(_, _, _)
ParseStrings(txt, i, acc) ==
    IF txt[i] = 93 THEN <<acc, i + 1>>
    ELSE IF txt[i] = 44 THEN ParseStrings(txt, i + 1, acc)
    ELSE LET p == ParseChars(txt, i + 1, <<>>)
         IN  ParseStrings(txt, p[2], Append(acc, p[1]))

\* what get returned, as a sequence of strings
ParseStack(txt) == ParseStrings(txt, 2, <<>>)[1]

\* the [key, [values]] pairs of an array from position i, just after "["
RECURSIVE ParsePairs(_, _, _)
ParsePairs(txt, i, acc) ==
    IF txt[i] = 93 THEN acc
    ELSE IF txt[i] = 44 THEN ParsePairs(txt, i + 1, acc)
    ELSE LET key == ParseChars(txt, i + 2, <<>>)
             stk == ParseStrings(txt, key[2] + 2, <<>>)
         IN  ParsePairs(txt, stk[2] + 1, Append(acc, <<key[1], stk[1]>>))

\* what iter returned, as a sequence of <<key, stack>>
ParseEntries(txt) == ParsePairs(txt, 2, <<>>)

IsPrefix(a, b) == Len(a) <= Len(b) /\ SubSeq(b, 1, Len(a)) = a

\* v1 occurs in s at an earlier position than v2
InOrder(s, v1, v2) ==
    \E a, b \in 1 .. Len(s) : a < b /\ s[a] = v1 /\ s[b] = v2

Returned(t, op) == pc[t] = "idle" /\ arg[t].op = op
Returns(t, op) == pc[t] # "idle" /\ arg[t].op = op /\ pc'[t] = "idle"

\* ------------------------------------------------------------------ C1
\* C1: when threads each push once under one key, starting from a store
\* where the key is absent and with no del_stack of it, then once all these
\* pushes have returned the key's stack holds exactly the pushed values,
\* each once.
C1_NoPushLost ==
    \A k \in Keys :
        LET log == gk[k].log IN
        ( /\ ~gk[k].everDel
          /\ log # <<>>
          /\ \A i, j \in 1 .. Len(log) : log[i][1] = log[j][1] => i = j
          /\ \A t \in Threads :
                ~(pc[t] # "idle" /\ arg[t].op = "set" /\ arg[t].key = k) )
        => /\ Present(k)
           /\ Len(inner[k]) = Len(log)
           /\ Elems(inner[k]) = { log[i][2] : i \in 1 .. Len(log) }

\* ------------------------------------------------------------------ C2
\* the snapshots of key k in the result of thread t's finished get or iter
SnapshotsOf(t, k) ==
    IF ret[t].tag # "Some" THEN {}
    ELSE IF arg[t].op = "get"
         THEN IF arg[t].key = k THEN {ParseStack(ret[t].text)} ELSE {}
         ELSE LET es == ParseEntries(ret[t].text)
              IN  { es[i][2] : i \in { j \in 1 .. Len(es) : es[j][1] = k } }

\* C2: two values pushed under a key by one thread, the first push returning
\* before the second starts, appear in that order in every snapshot of the
\* key taken after both pushes returned with no del_stack of the key in
\* between.
C2_ProgramOrder ==
    \A t \in Threads : (Returned(t, "get") \/ Returned(t, "iter")) =>
        \A k \in Keys :
            LET log == gt[t].before[k] IN
            \A i, j \in 1 .. Len(log) : (i < j /\ log[i][1] = log[j][1]) =>
                /\ (arg[t].op = "get" /\ arg[t].key = k) => ret[t].tag = "Some"
                /\ \A s \in SnapshotsOf(t, k) : InOrder(s, log[i][2], log[j][2])

\* ------------------------------------------------------------------ C3
\* C3: a step that is not the removal of a del_stack of key k leaves every
\* element of k's stack where it is: the stack before the step is a prefix
\* of the stack after it.
C3_AppendOnly ==
    [][ \A k \in DOMAIN inner :
          (~\E t \in Threads : Returns(t, "del") /\ arg[t].key = k)
          => (k \in DOMAIN inner' /\ IsPrefix(inner[k], inner'[k])) ]_vars

\* ------------------------------------------------------------------ C4
\* C4: a get of key k that reads the key when the last call that took effect
\* on k is a push of v returns a present array whose last element is v.
C4_PushThenGet ==
    [][ \A t \in Threads :
          (Returns(t, "get") /\ gk[arg[t].key].last[1] = "push")
          => /\ ret'[t].tag = "Some"
             /\ ParseStack(ret'[t].text) # <<>>
             /\ LET s == ParseStack(ret'[t].text)
                IN  s[Len(s)] = gk[arg[t].key].last[2] ]_vars

C4_Witness ==
    \E t \in Threads :
        /\ Returned(t, "get") /\ ret[t].tag = "Some"
        /\ gk[arg[t].key].last[1] = "push"
        /\ Len(ParseStack(ret[t].text)) >= 2
        /\ \E u \in Threads \ {t} :
              /\ Returned(u, "get") /\ ret[u].tag = "Some"
              /\ Len(ParseStack(ret[u].text)) = 1

\* ------------------------------------------------------------------ C5
\* C5: a key is in the map if and only if a push for it has returned and no
\* del_stack has removed it since the last such push.
C5_PresentIffPushed ==
    \A k \in Keys : Present(k) <=> gk[k].last[1] = "push"

C5_Witness ==
    \E k, j \in Keys :
        /\ ~Present(k) /\ gk[k].last = <<"drop">> /\ gk[k].gone # {}
        /\ Present(j) /\ gk[j].last[1] = "push"

\* ------------------------------------------------------------------ C6
\* C6: a get of key k that reads the key when the last call that took effect
\* on k is a del_stack returns absent; the stack the next push creates holds
\* the pushed value only, and no stack of k ever holds a value that a
\* removed stack of k held.
C6_AbsentAfterDrop ==
    [][ /\ \A t \in Threads :
              (Returns(t, "get") /\ gk[arg[t].key].last = <<"drop">>)
              => ret'[t] = None
        /\ \A k \in DOMAIN inner' :
              /\ Elems(inner'[k]) \cap gk'[k].gone = {}
              /\ gk[k].last = <<"drop">> => Len(inner'[k]) = 1 ]_vars

C6_Witness ==
    \E t \in Threads :
        /\ Returned(t, "get") /\ ret[t] = None
        /\ gk[arg[t].key].gone # {}
        /\ Present(arg[t].key)

\* ------------------------------------------------------------------ C7
\* C7: del_stack returns true exactly when the key was present before the
\* removal and leaves the key absent; a del_stack that follows a del_stack
\* of the same key with no push in between returns false and leaves the map
\* as it was.
C7_DropResult ==
    [][ \A t \in Threads : Returns(t, "del") =>
          LET k == arg[t].key IN
          /\ ret'[t] = Bool(Present(k))
          /\ k \notin DOMAIN inner'
          /\ \A j \in Keys \ {k} : Contents(inner', j) = Contents(inner, j)
          /\ gk[k].last = <<"drop">> => (ret'[t] = Bool(FALSE) /\ inner' = inner)
      ]_vars

C7_Witness ==
    \E t \in Threads :
        /\ Returned(t, "del") /\ ret[t] = Bool(FALSE)
        /\ gk[arg[t].key].ndrop >= 2 /\ gk[arg[t].key].ntrue = 1

\* ------------------------------------------------------------------ C8
\* C8: of the del_stack calls of a key since the insert that last created
\* its stack, the first returns true and no other does.
C8_OneTrueDrop ==
    \A k \in Keys : gk[k].created =>
        /\ gk[k].ntrue <= 1
        /\ gk[k].ndrop >= 1 => gk[k].ntrue = 1

C8_Witness ==
    \E k \in Keys :
        /\ gk[k].created /\ gk[k].ndrop >= 2 /\ gk[k].ntrue = 1
        /\ \E t, u \in Threads :
              /\ t # u /\ arg[t].key = k /\ arg[u].key = k
              /\ Returned(t, "del") /\ ret[t] = Bool(TRUE)
              /\ Returned(u, "del") /\ ret[u] = Bool(FALSE)

\* ------------------------------------------------------------------ C9
\* the number of entries of es whose key is k
CountKey(es, k) == Cardinality({ i \in 1 .. Len(es) : es[i][1] = k })

\* f is k[i+1 .. j] for some 0 <= i <= j <= Len(k)
IsSubstring(f, k) ==
    \E i \in 0 .. Len(k) : \E j \in i .. Len(k) : SubSeq(k, i + 1, j) = f

\* C9: an iter during which no other thread was inside a call returns one
\* entry for each key that is present and contains the filter, and no other
\* entry.
C9_FilterExact ==
    \A t \in Threads : (Returned(t, "iter") /\ gt[t].alone) =>
        /\ ret[t].tag = "Some"
        /\ LET es == ParseEntries(ret[t].text) IN
           /\ \A i \in 1 .. Len(es) : es[i][1] \in Keys
           /\ \A k \in Keys :
                 CountKey(es, k) =
                    IF gt[t].during[k] # {} /\ IsSubstring(arg[t].filter, k)
                    THEN 1 ELSE 0

C9_Witness ==
    \E t \in Threads :
        /\ Returned(t, "iter") /\ gt[t].alone /\ ret[t].tag = "Some"
        /\ arg[t].filter # <<>>
        /\ Len(ParseEntries(ret[t].text)) = 1
        /\ Cardinality(DOMAIN inner) = 2

\* ----------------------------------------------------------------- C10
\* C10: every inner array iter returns for a key is a contents that the
\* key's stack had at some time between the call and the return of iter.
C10_EntryConsistent ==
    \A t \in Threads : Returned(t, "iter") =>
        /\ ret[t].tag = "Some"
        /\ LET es == ParseEntries(ret[t].text) IN
           \A i \in 1 .. Len(es) :
              /\ es[i][1] \in Keys
              /\ es[i][2] \in gt[t].during[es[i][1]]

C10_Witness ==
    \E t \in Threads :
        /\ Returned(t, "iter") /\ ~gt[t].alone /\ ret[t].tag = "Some"
        /\ LET es == ParseEntries(ret[t].text) IN
           \E i \in 1 .. Len(es) :
              /\ Len(es[i][2]) >= 2
              /\ Cardinality(gt[t].during[es[i][1]]) >= 2

\* ----------------------------------------------------------------- C11
\* what thread t does once it is inside a call
Step(t) ==
    \/ SetGet(t) \/ SetLock(t) \/ SetPush(t) \/ SetInsertLock(t) \/ SetInsert(t)
    \/ GetGet(t) \/ GetLock(t) \/ GetSer(t)
    \/ IterShard(t) \/ IterSwap(t) \/ (\E k \in Keys : IterEntry(t, k))
    \/ IterLock(t) \/ IterClone(t) \/ IterFinish(t)
    \/ DelLock(t) \/ DelRemove(t)

\* the value an earlier call pushed under a key of a store in use
OldValue == <<48>>

\* the keys of a store in use: "a" and "ba", one in each shard; "b", which
\* shares the shard of "a", is absent
OldKeys == { k \in Keys : k[Len(k)] = 97 }

\* a store in use: earlier calls, all returned, have pushed one value under
\* each of these keys, and every thread has one call left to make
LiveInit ==
    /\ inner = [k \in OldKeys |-> <<OldValue>>]
    /\ gk = [k \in Keys |->
                IF k \in OldKeys
                THEN [NoKeyHist EXCEPT !.log = <<<<0, OldValue>>>>,
                                       !.last = <<"push", OldValue>>,
                                       !.created = TRUE,
                                       !.into = <<OldValue>>]
                ELSE NoKeyHist]
    /\ rlock = [s \in Shards |-> {}]
    /\ wlock = [s \in Shards |-> 0]
    /\ mutex = [k \in Keys |-> 0]
    /\ poison = [k \in Keys |-> FALSE]
    /\ pc = [t \in Threads |-> "idle"]
    /\ arg = [t \in Threads |-> NoArg]
    /\ ret = [t \in Threads |-> NoRet]
    /\ nops = [t \in Threads |-> MaxOps - 1]
    /\ it = [t \in Threads |-> NoIter]
    /\ gt = [t \in Threads |-> NoCallHist]

\* every thread inside a call is scheduled again and again; nothing makes a
\* thread start a call
LiveSpec ==
    LiveInit /\ [][Next]_vars /\ \A t \in Threads : WF_vars(Step(t))

\* the threads that hold shard s in a way that keeps a reader out, and
\* those that keep a writer out
WriterOf(s) == IF wlock[s] = 0 THEN {} ELSE {wlock[s]}
HoldersOf(s) == WriterOf(s) \cup rlock[s]
OwnerOf(k) == IF mutex[k] = 0 THEN {} ELSE {mutex[k]}

\* the threads whose locks thread t is waiting for
WaitsFor(t) ==
    CASE pc[t] \in {"set_get", "get_get"} -> WriterOf(ShardOf(arg[t].key))
      [] pc[t] \in {"set_insert", "del"} -> HoldersOf(ShardOf(arg[t].key))
      [] pc[t] \in {"set_lock", "get_lock"} -> OwnerOf(arg[t].key)
      [] pc[t] = "iter_lock" -> OwnerOf(it[t].cur)
      [] pc[t] = "iter_next" /\ Unvisited(t) = {} /\ it[t].shard_i < NumShards
            -> WriterOf(it[t].shard_i)
      [] OTHER -> {}

\* the threads reached from the set S along at most n waits-for edges
RECURSIVE Reach(_, _)
Reach(S, n) ==
    IF n = 0 THEN S
    ELSE Reach(S \cup UNION { WaitsFor(u) : u \in S }, n - 1)

\* no thread waits, directly or through others, for itself, and none waits
\* for a thread that is outside every call
AcyclicWaits ==
    \A t \in Threads :
        /\ t \notin Reach(WaitsFor(t), NumThreads)
        /\ \A u \in WaitsFor(t) : pc[u] # "idle"

\* C11: the wait-for graph over shard locks and entry mutexes never has a
\* cycle, and every call that has started returns, provided every thread
\* inside a call keeps being scheduled.
C11_NoDeadlock ==
    /\ []AcyclicWaits
    /\ \A t \in Threads : (pc[t] # "idle") ~> (pc[t] = "idle")

\* a thread that needs a shard's write lock waits for a thread that holds
\* the shard's read lock inside a call
C11_Witness ==
    \E t, u \in Threads :
        /\ t # u
        /\ u \in WaitsFor(t)
        /\ pc[t] \in {"set_insert", "del"}
        /\ pc[u] \in {"iter_swap", "iter_clone", "set_push", "get_ser"}

\* ----------------------------------------------------------------- C12
\* the result of a call whose thread panicked
Panicked == [tag |-> "Panicked"]

\* the key whose Mutex thread t holds
HeldKey(t) == IF arg[t].op = "iter" THEN it[t].cur ELSE arg[t].key

\* a thread panics while it holds an entry's MutexGuard (inside guard.push,
\* serde_json::to_string or stack.clone): unwinding drops the guard, which
\* poisons the Mutex, then the Ref or the iterator; the stack is as it was,
\* and the thread makes no further call
Panic(t) ==
    /\ pc[t] \in {"set_push", "get_ser", "iter_clone"}
    /\ mutex' = GuardDropped(mutex, HeldKey(t))
    /\ poison' = [poison EXCEPT ![HeldKey(t)] = TRUE]
    /\ rlock' = [s \in Shards |-> RefDropped(rlock[s], t)]
    /\ pc' = [pc EXCEPT ![t] = "idle"]
    /\ ret' = [ret EXCEPT ![t] = Panicked]
    /\ nops' = [nops EXCEPT ![t] = MaxOps]
    /\ it' = [it EXCEPT ![t] = NoIter]
    /\ gk' = [gk EXCEPT ![HeldKey(t)].kept = inner[HeldKey(t)]]
    /\ UNCHANGED <<inner, wlock, arg, gt>>

PoisonNext ==
    \/ Next
    \/ \E t \in Threads : Panic(t)

PoisonSpec == Init /\ [][PoisonNext]_vars

\* a poisoned Mutex belongs to a present entry, whose stack starts with what
\* the panicking holder left
PoisonKept ==
    \A k \in Keys :
        poison[k] => Present(k) /\ IsPrefix(gk[k].kept, inner[k])

\* thread t, holding a poisoned Mutex, completes its step without panicking
Recovers(t) ==
    /\ pc[t] \in {"set_push", "get_ser", "iter_clone"}
    /\ poison[HeldKey(t)]
    /\ pc'[t] # pc[t]
    /\ ret'[t] # Panicked

RecoveredStep(t) ==
    Recovers(t) =>
        /\ poison'[HeldKey(t)]
        /\ arg[t].op = "set" =>
              /\ ret'[t] = Unit
              /\ inner'[arg[t].key] = Append(inner[arg[t].key], arg[t].value)
        /\ arg[t].op = "get" =>
              /\ ret'[t].tag = "Some"
              /\ ParseStack(ret'[t].text) = inner[arg[t].key]
              /\ inner' = inner
        /\ arg[t].op = "iter" =>
              /\ it'[t].r = Append(it[t].r, <<it[t].cur, inner[it[t].cur]>>)
              /\ pc'[t] = "iter_next"
              /\ inner' = inner

OneEmptyString == <<91, 34, 34, 93>>

\* C13: get(k) returns None if and only if k is not present, that is k was
\* never pushed to or was dropped since its last push; for a present key it
\* returns Some, with the stack in it, also when the only element of the
\* stack is the empty string.
C13_AbsentIffNotPresent ==
    [][\A t \in Threads :
          Returns(t, "get") =>
              /\ (ret'[t] = None) <=> ~Present(arg[t].key)
              /\ ~Present(arg[t].key) <=> gk[arg[t].key].last[1] # "push"
              /\ Present(arg[t].key) =>
                    /\ ret'[t].tag = "Some"
                    /\ ParseStack(ret'[t].text) = inner[arg[t].key]]_vars

\* a get returned Some([""]) for a stack holding one empty string
C13_Witness ==
    \E t \in Threads :
        /\ Returned(t, "get")
        /\ ret[t] = Some(OneEmptyString)
        /\ Present(arg[t].key) /\ inner[arg[t].key] = << <<>> >>

\* ----------------------------------------------------------------- C14
\* the text [], the snapshot of no entry
EmptyArray == <<91, 93>>

\* no key that contains the filter of t's call was present during the call
NoMatch(t) ==
    \A k \in Keys : IsSubstring(arg[t].filter, k) => gt[t].during[k] = {}

\* C14: iter never returns None: when the store is empty, or no key present
\* during the call contains the filter, it returns Some of the empty array.
C14_IterNeverAbsent ==
    \A t \in Threads :
        Returned(t, "iter") =>
            /\ ret[t].tag = "Some"
            /\ NoMatch(t) => ret[t].text = EmptyArray

\* an iter returned Some([]) over a store that held a key all along, which
\* does not contain the filter
C14_Witness ==
    \E t \in Threads :
        /\ Returned(t, "iter") /\ ret[t] = Some(EmptyArray)
        /\ NoMatch(t)
        /\ \E k \in Keys : Contents(inner, k) # {} /\ gt[t].during[k] = {inner[k]}

\* ----------------------------------------------------------------- C15
\* thread t takes a step inside a call of op
StepsIn(t, op) == pc[t] # "idle" /\ pc'[t] # pc[t] /\ arg[t].op = op

\* C15: stacks are independent: no step of set(k, v) or del_stack(k) changes
\* the presence or the contents of the stack of another key, in any
\* interleaving.
C15_OtherKeysUnchanged ==
    [][\A t \in Threads :
          StepsIn(t, "set") \/ StepsIn(t, "del") =>
              \A j \in Keys \ {arg[t].key} :
                  Contents(inner', j) = Contents(inner, j)]_vars

\* a del_stack removed a key; another key of the same shard, present during
\* the call, has its stack of two values
C15_Witness ==
    \E t \in Threads : \E j \in Keys \ {arg[t].key} :
        /\ Returned(t, "del") /\ ret[t] = Bool(TRUE)
        /\ ShardOf(j) = ShardOf(arg[t].key)
        /\ Present(j) /\ Len(inner[j]) = 2
        /\ gt[t].during[j] # {}

\* ----------------------------------------------------------------- C16
\* the entry Mutexes thread t holds
MutexesOf(t) == { k \in Keys : mutex[k] = t }

\* C16: each thread holds at most one entry Mutex at any time: iter has
\* released the Mutex of one entry before it locks the next, and set and
\* get lock the Mutex of their own key only.
C16_OneMutex ==
    \A t \in Threads :
        /\ Cardinality(MutexesOf(t)) <= 1
        /\ MutexesOf(t) # {} =>
              /\ pc[t] \in {"set_push", "get_ser", "iter_clone"}
              /\ MutexesOf(t) = {HeldKey(t)}
        /\ pc[t] \in {"iter_lock", "iter_next", "iter_swap"} => MutexesOf(t) = {}

\* an iter holds the Mutex of its second entry, having released the first
C16_Witness ==
    \E t \in Threads :
        /\ pc[t] = "iter_clone" /\ Len(it[t].r) >= 1
        /\ MutexesOf(t) = {it[t].cur}
        /\ it[t].r[1][1] # it[t].cur

\* ----------------------------------------------------------------- C17
\* the shards of which thread t holds the read or the write lock
ShardLocksOf(t) == { s \in Shards : t \in rlock[s] \/ wlock[s] = t }

\* the key whose Mutex thread t is about to lock or holds
MutexKey(t) == IF arg[t].op = "iter" THEN it[t].cur ELSE arg[t].key

\* what the lock order says apart from the number of shard locks: at most
\* one Mutex, locked under the read lock of its entry's shard; a write lock
\* is held alone; del_stack holds no Mutex; a returned call holds nothing
MutexAfterShard(t) ==
    /\ Cardinality(MutexesOf(t)) <= 1
    /\ pc[t] \in {"set_lock", "get_lock", "iter_lock",
                  "set_push", "get_ser", "iter_clone"} =>
          /\ Present(MutexKey(t))
          /\ t \in rlock[ShardOf(MutexKey(t))]
          /\ MutexesOf(t) \subseteq {MutexKey(t)}
    /\ \A s \in Shards : wlock[s] = t => ShardLocksOf(t) = {s} /\ MutexesOf(t) = {}
    /\ arg[t].op = "del" => MutexesOf(t) = {}
    /\ pc[t] = "idle" => ShardLocksOf(t) = {} /\ MutexesOf(t) = {}

\* C17 as stated: every operation follows one lock order: at any moment it
\* holds at most one shard lock and at most one entry Mutex, it locks a
\* Mutex only while holding the lock of that entry's shard, del_stack never
\* locks a Mutex, and every operation has released all locks when it
\* returns.
C17_OneShardLock ==
    \A t \in Threads :
        /\ Cardinality(ShardLocksOf(t)) <= 1
        /\ MutexAfterShard(t)

\* C17, amended: as stated, except that iter holds the read locks of two
\* shards, the one it leaves and the next one, from the moment Iter::next
\* has locked the next shard until it drops the guard of the shard it
\* leaves; it holds no Mutex then.  set, get and del_stack hold at most one
\* shard lock at any moment.
C17_LockOrder ==
    \A t \in Threads :
        /\ MutexAfterShard(t)
        /\ Cardinality(ShardLocksOf(t)) <= 2
        /\ Cardinality(ShardLocksOf(t)) = 2 =>
              /\ pc[t] = "iter_swap"
              /\ ShardLocksOf(t) = {it[t].shard_i - 1, it[t].shard_i}
              /\ \A s \in ShardLocksOf(t) : wlock[s] # t
              /\ MutexesOf(t) = {}

\* an iter that collected an entry of the shard it leaves holds the read
\* locks of that shard and of the next, while another thread holds a Mutex
\* under one of them
C17_Witness ==
    \E t, u \in Threads :
        /\ pc[t] = "iter_swap" /\ Cardinality(ShardLocksOf(t)) = 2
        /\ Len(it[t].r) >= 1
        /\ MutexesOf(u) # {} /\ ShardLocksOf(u) # {}

\* ----------------------------------------------------------------- C18
\* thread t returns from the insert of set on key k
Inserts(t, k) ==
    pc[t] = "set_insert_w" /\ pc'[t] = "idle" /\ arg[t].key = k

\* every stack in the map, every stack get returned and every stack in what
\* iter collected or returned has an element
NoEmptyStack ==
    /\ \A k \in DOMAIN inner : Len(inner[k]) >= 1
    /\ \A t \in Threads :
          /\ \A i \in 1 .. Len(it[t].r) : Len(it[t].r[i][2]) >= 1
          /\ Returned(t, "get") /\ ret[t].tag = "Some" =>
                /\ ret[t].text # EmptyArray
                /\ Len(ParseStack(ret[t].text)) >= 1
          /\ Returned(t, "iter") /\ ret[t].tag = "Some" =>
                LET es == ParseEntries(ret[t].text) IN
                \A i \in 1 .. Len(es) : Len(es[i][2]) >= 1

\* C18: a present stack is never empty: every key in the map has a stack of
\* at least one element, so no get result and no inner array of iter is the
\* empty array; a stack is created holding the first pushed value, and the
\* stack of a key gets shorter only when an insert puts a new stack in its
\* place.
C18_NeverEmpty ==
    /\ []NoEmptyStack
    /\ [][\A k \in Keys :
            /\ ~Present(k) /\ k \in DOMAIN inner' => Len(inner'[k]) = 1
            /\ Present(k) /\ k \in DOMAIN inner'
                  /\ Len(inner'[k]) < Len(inner[k]) =>
                     \E t \in Threads : Inserts(t, k)]_vars

\* a get returned the one value of a stack that an insert has just created,
\* and an iter returned an entry
C18_Witness ==
    \E t, u \in Threads :
        /\ Returned(t, "get") /\ ret[t].tag = "Some"
        /\ Len(ParseStack(ret[t].text)) = 1
        /\ Returned(u, "iter") /\ ret[u].tag = "Some"
        /\ Len(ParseEntries(ret[u].text)) >= 1

\* ----------------------------------------------------------------- C19
\* a set that found its key in the map still holds the Ref: the shard is
\* read-locked by it, not write-locked, and the key is in the map
AppendUnderRef ==
    \A t \in Threads :
        pc[t] \in {"set_lock", "set_push"} =>
            /\ Present(arg[t].key)
            /\ t \in rlock[ShardOf(arg[t].key)]
            /\ wlock[ShardOf(arg[t].key)] = 0

\* C19: a set that finds its key present appends while it still holds the
\* map's guard on the entry, so no del_stack removes the stack between the
\* lookup and the append: the value is appended to a stack that is in the
\* map, and a del_stack that returns true removes a stack that holds every
\* value whose push on that stack returned before.
C19_AppendBeforeDrop ==
    /\ []AppendUnderRef
    /\ [][\A t \in Threads :
            /\ pc[t] = "set_push" /\ pc'[t] = "idle" =>
                  /\ arg[t].key \in DOMAIN inner'
                  /\ inner'[arg[t].key] =
                        Append(inner[arg[t].key], arg[t].value)
            /\ Returns(t, "del") /\ ret'[t] = Bool(TRUE) =>
                  /\ Present(arg[t].key)
                  /\ inner[arg[t].key] = gk[arg[t].key].into
                  /\ arg[t].key \notin DOMAIN inner']_vars

\* a del_stack that overlapped another call returned true and removed a
\* stack of two values, one of them pushed by the other thread
C19_Witness ==
    \E t \in Threads : \E u \in Threads \ {t} :
        /\ Returned(t, "del") /\ ret[t] = Bool(TRUE) /\ ~gt[t].alone
        /\ Returned(u, "set") /\ arg[u].key = arg[t].key
        /\ ~Present(arg[t].key)
        /\ arg[u].value \in gk[arg[t].key].gone
        /\ Cardinality(gk[arg[t].key].gone) = 2

\* ----------------------------------------------------------------- C20
\* C20: the reading operations and a del_stack that fails have no effect on
\* the store: no step of get, of iter, or of a del_stack that returns false
\* changes the set of keys in the map or the contents of a stack.
C20_ReadsChangeNothing ==
    [][\A t \in Threads :
          \/ StepsIn(t, "get")
          \/ StepsIn(t, "iter")
          \/ StepsIn(t, "del") /\ ret'[t] # Bool(TRUE)
          => inner' = inner]_vars

\* a del_stack of a key that is not in the map returned false, next to a
\* get and over a store that holds the stacks it held all along
C20_Witness ==
    \E t \in Threads : \E u \in Threads \ {t} :
        /\ Returned(t, "del") /\ ret[t] = Bool(FALSE)
        /\ Returned(u, "get") /\ ret[u].tag = "Some"
        /\ inner # <<>>
        /\ \A k \in Keys : gt[t].during[k] = Contents(inner, k)
====
